---- MODULE Spec2Model ----
(***************************************************************************)
(* Version resolution of npins git pins (src/src/git.rs).                  *)
(*                                                                         *)
(* Strings are sequences of one-character strings, so that prefix          *)
(* stripping, line splitting and version parsing are computed on the text  *)
(* as the code computes them.                                              *)
(***************************************************************************)
EXTENDS Integers, Sequences, FiniteSets, TLC

(***************************************************************************)
(* Bounds of the model.                                                    *)
(***************************************************************************)
MaxTags == 3

(***************************************************************************)
(* Characters.                                                             *)
(***************************************************************************)
Digits == <<"0", "1", "2", "3", "4", "5", "6", "7", "8", "9">>
UpperHex == <<"A", "B", "C", "D", "E", "F">>
Lower == <<"a", "b", "c", "d", "e", "f", "g", "h", "i", "j", "k", "l", "m",
           "n", "o", "p", "q", "r", "s", "t", "u", "v", "w", "x", "y", "z">>
\* the alphanumeric characters of the model in ASCII order
AsciiOrder == Digits \o UpperHex \o <<"V">> \o Lower

Range(s) == {s[i] : i \in 1..Len(s)}

IsDigit(c) == c \in Range(Digits)
IsAlnum(c) == c \in Range(AsciiOrder)
\* char::is_digit(16)
IsHexDigit(c) == c \in Range(Digits) \cup Range(UpperHex) \cup {"a", "b", "c", "d", "e", "f"}

DigitVal(c) == CHOOSE i \in 0..9 : Digits[i + 1] = c
CharOrd(c) == CHOOSE i \in 1..Len(AsciiOrder) : AsciiOrder[i] = c

\* a string of n copies of the character c
Rep(c, n) == [i \in 1..n |-> c]

(***************************************************************************)
(* Option values.  Every option of one type has one record shape.          *)
(***************************************************************************)
NoneStr == [some |-> FALSE, val |-> <<>>]
SomeStr(s) == [some |-> TRUE, val |-> s]

(***************************************************************************)
(* str::starts_with, str::ends_with, str::strip_prefix, str::split         *)
(***************************************************************************)
starts_with(s, p) == Len(p) <= Len(s) /\ SubSeq(s, 1, Len(p)) = p

ends_with(s, p) == Len(p) <= Len(s) /\ SubSeq(s, Len(s) - Len(p) + 1, Len(s)) = p

strip_prefix(s, p) ==
    IF starts_with(s, p) THEN SomeStr(SubSeq(s, Len(p) + 1, Len(s))) ELSE NoneStr

\* position of the first occurrence of the character c in s, 0 when absent
IndexOf(s, c) ==
    IF \E i \in 1..Len(s) : s[i] = c
    THEN CHOOSE i \in 1..Len(s) : s[i] = c /\ \A j \in 1..(i - 1) : s[j] # c
    ELSE 0

RECURSIVE split(_, _)
split(s, c) ==
    LET i == IndexOf(s, c)
    IN IF i = 0 THEN <<s>>
       ELSE <<SubSeq(s, 1, i - 1)>> \o split(SubSeq(s, i + 1, Len(s)), c)

RECURSIVE Concat(_)
Concat(ss) == IF ss = <<>> THEN <<>> ELSE Head(ss) \o Concat(Tail(ss))

(***************************************************************************)
(* lenient_semver_parser::parse::<Version> and the order of                *)
(* lenient_version::Version, as git.rs uses them: an optional leading "v", *)
(* one or more dot-separated numbers (major, then minor and patch, which   *)
(* default to 0, then additional numbers), and an optional pre-release     *)
(* part of dot-separated alphanumeric identifiers after a hyphen.  The     *)
(* sample tags stay inside this sub-language; their results are those the  *)
(* tests of git.rs state ("foo" does not parse, "v1.1" and "2" do,         *)
(* "2.0-pre" and "2.1-b1" are pre-releases, "2.0-pre" < "2").              *)
(***************************************************************************)
NoVersion == [nums |-> <<>>, pre |-> <<>>]

RECURSIVE NumVal(_)
NumVal(ds) == IF ds = <<>> THEN 0 ELSE NumVal(SubSeq(ds, 1, Len(ds) - 1)) * 10 + DigitVal(ds[Len(ds)])

IsNumber(seg) == seg # <<>> /\ \A i \in 1..Len(seg) : IsDigit(seg[i])
IsIdent(seg) == seg # <<>> /\ \A i \in 1..Len(seg) : IsAlnum(seg[i])

parse(s) ==
    LET body == IF s # <<>> /\ Head(s) \in {"v", "V"} THEN Tail(s) ELSE s
        hy == IndexOf(body, "-")
        numpart == IF hy = 0 THEN body ELSE SubSeq(body, 1, hy - 1)
        prepart == IF hy = 0 THEN <<>> ELSE SubSeq(body, hy + 1, Len(body))
        numsegs == split(numpart, ".")
        presegs == IF hy = 0 THEN <<>> ELSE split(prepart, ".")
        ok == /\ \A i \in 1..Len(numsegs) : IsNumber(numsegs[i])
              /\ \A i \in 1..Len(presegs) : IsIdent(presegs[i])
        given == [i \in 1..Len(numsegs) |-> NumVal(numsegs[i])]
        nums == IF Len(given) >= 3 THEN given
                ELSE [i \in 1..3 |-> IF i <= Len(given) THEN given[i] ELSE 0]
    IN IF ok THEN [ok |-> TRUE, v |-> [nums |-> nums, pre |-> presegs]]
       ELSE [ok |-> FALSE, v |-> NoVersion]

is_pre_release(v) == v.pre # <<>>

CmpInt(a, b) == IF a < b THEN -1 ELSE IF a > b THEN 1 ELSE 0

\* Vec<u64>::cmp: lexicographic, a proper prefix is smaller
RECURSIVE CmpNums(_, _)
CmpNums(a, b) ==
    IF a = <<>> /\ b = <<>> THEN 0
    ELSE IF a = <<>> THEN -1
    ELSE IF b = <<>> THEN 1
    ELSE LET c == CmpInt(Head(a), Head(b))
         IN IF c # 0 THEN c ELSE CmpNums(Tail(a), Tail(b))

\* str::cmp on alphanumeric text: lexicographic by character code
RECURSIVE CmpText(_, _)
CmpText(a, b) ==
    IF a = <<>> /\ b = <<>> THEN 0
    ELSE IF a = <<>> THEN -1
    ELSE IF b = <<>> THEN 1
    ELSE LET c == CmpInt(CharOrd(Head(a)), CharOrd(Head(b)))
         IN IF c # 0 THEN c ELSE CmpText(Tail(a), Tail(b))

\* pre-release identifiers: numeric ones by value and below alphanumeric ones
CmpIdent(a, b) ==
    IF IsNumber(a) /\ IsNumber(b) THEN CmpInt(NumVal(a), NumVal(b))
    ELSE IF IsNumber(a) THEN -1
    ELSE IF IsNumber(b) THEN 1
    ELSE CmpText(a, b)

RECURSIVE CmpPre(_, _)
CmpPre(a, b) ==
    IF a = <<>> /\ b = <<>> THEN 0
    ELSE IF a = <<>> THEN -1
    ELSE IF b = <<>> THEN 1
    ELSE LET c == CmpIdent(Head(a), Head(b))
         IN IF c # 0 THEN c ELSE CmpPre(Tail(a), Tail(b))

\* Ord::cmp of Version: -1 (Less), 0 (Equal), 1 (Greater)
CmpVersion(a, b) ==
    LET n == CmpNums(a.nums, b.nums)
    IN IF n # 0 THEN n
       ELSE IF a.pre = <<>> /\ b.pre = <<>> THEN 0
       ELSE IF a.pre = <<>> THEN 1
       ELSE IF b.pre = <<>> THEN -1
       ELSE CmpPre(a.pre, b.pre)

(***************************************************************************)
(* Sample texts.                                                           *)
(***************************************************************************)
T_1_0 == <<"1", ".", "0">>
T_2_0 == <<"2", ".", "0">>
T_2_0_pre == <<"2", ".", "0", "-", "p", "r", "e">>
T_foo == <<"f", "o", "o">>
T_v1_0 == <<"v", "1", ".", "0">>
T_vv1_0 == <<"v", "v", "1", ".", "0">>
T_zes_1_0 == <<"z", "e", "s", "/", "1", ".", "0">>
T_zes_2_0 == <<"z", "e", "s", "/", "2", ".", "0">>
T_zes_2_1_b1 == <<"z", "e", "s", "/", "2", ".", "1", "-", "b", "1">>
T_2 == <<"2">>
T_v == <<"v">>
T_zes == <<"z", "e", "s", "/">>

\* tag names offered to the Release Selector
SelectorTags == {T_1_0, T_2_0, T_2_0_pre, T_foo, T_v1_0, T_vv1_0,
                 T_zes_1_0, T_zes_2_0, T_zes_2_1_b1}
Prefixes == {NoneStr, SomeStr(T_v), SomeStr(T_zes)}
UpperBounds == {NoneStr, SomeStr(T_2), SomeStr(T_1_0)}

\* all sequences over S of length at most n
SeqsUpTo(S, n) == UNION {[1..k -> S] : k \in 0..n}

(***************************************************************************)
(* latest_release                                                          *)
(***************************************************************************)
NoRelease == [some |-> FALSE, tag |-> <<>>, name |-> <<>>]
NoBound == [some |-> FALSE, val |-> NoVersion]
SomeBound(v) == [some |-> TRUE, val |-> v]

\* tags.filter_map(|tag| tag.strip_prefix(prefix)), or the tags themselves
RECURSIVE StripPrefixes(_, _)
StripPrefixes(ts, prefix) ==
    IF ~prefix.some THEN ts
    ELSE IF ts = <<>> THEN <<>>
    ELSE LET r == strip_prefix(Head(ts), prefix.val)
         IN (IF r.some THEN <<r.val>> ELSE <<>>) \o StripPrefixes(Tail(ts), prefix)

\* .filter_map(|tag| parse(tag).ok().map(|version| (tag, version)))
RECURSIVE ParseTags(_)
ParseTags(ts) ==
    IF ts = <<>> THEN <<>>
    ELSE LET r == parse(Head(ts))
         IN (IF r.ok THEN <<[tag |-> Head(ts), version |-> r.v]>> ELSE <<>>)
            \o ParseTags(Tail(ts))

\* the flag ignored
PreReleaseFilter_Always(pre, version) == TRUE

\* .filter(|(_, version)| pre_releases || !version.is_pre_release())
PreReleaseFilter(pre, version) == pre \/ ~is_pre_release(version)

\* the bound taken as inclusive
UpperBoundFilter_Inclusive(bound, version) ==
    IF bound.some THEN CmpVersion(version, bound.val) <= 0 ELSE TRUE

\* .filter(|(_, version)| match bound { Some(b) => version < b, None => true })
UpperBoundFilter(bound, version) ==
    IF bound.some THEN CmpVersion(version, bound.val) = -1 ELSE TRUE

RECURSIVE FilterVersions(_, _, _)
FilterVersions(ps, pre, bound) ==
    IF ps = <<>> THEN <<>>
    ELSE (IF PreReleaseFilter(pre, Head(ps).version) /\ UpperBoundFilter(bound, Head(ps).version)
          THEN <<Head(ps)>> ELSE <<>>)
         \o FilterVersions(Tail(ps), pre, bound)

\* the lesser element kept
MaxByStep_Lesser(acc, x) == IF CmpVersion(acc.version, x.version) = -1 THEN acc ELSE x

\* Iterator::max_by step: the accumulated element is kept only when it is
\* strictly greater, so of several equal maxima the last one wins
MaxByStep(acc, x) == IF CmpVersion(acc.version, x.version) = 1 THEN acc ELSE x

RECURSIVE MaxByFold(_, _)
MaxByFold(acc, rest) ==
    IF rest = <<>> THEN acc ELSE MaxByFold(MaxByStep(acc, Head(rest)), Tail(rest))

\* the prefix not re-attached
MakeLatestRelease_Bare(tag, prefix) == [some |-> TRUE, tag |-> tag, name |-> tag]

\* LatestRelease { tag: prefix + tag, name: tag }
MakeLatestRelease(tag, prefix) ==
    [some |-> TRUE,
     tag |-> IF prefix.some THEN prefix.val \o tag ELSE tag,
     name |-> tag]

latest_release(ts, pre, bound, prefix) ==
    LET cands == FilterVersions(ParseTags(StripPrefixes(ts, prefix)), pre, bound)
    IN IF cands = <<>> THEN NoRelease
       ELSE MakeLatestRelease(MaxByFold(Head(cands), Tail(cands)).tag, prefix)

(***************************************************************************)
(* git ls-remote: its standard output for a list of (revision, ref-name)   *)
(* entries, and fetch_remote, which parses that output.                    *)
(***************************************************************************)
RefsTags == <<"r", "e", "f", "s", "/", "t", "a", "g", "s", "/">>
RefsHeads == <<"r", "e", "f", "s", "/", "h", "e", "a", "d", "s", "/">>

\* one output line per entry: <revision> TAB <ref-name> NEWLINE
RECURSIVE ls_remote_stdout(_)
ls_remote_stdout(entries) ==
    IF entries = <<>> THEN <<>>
    ELSE Head(entries).revision \o <<"\t">> \o Head(entries).ref_ \o <<"\n">>
         \o ls_remote_stdout(Tail(entries))

\* the messages of the parse errors, as the format strings give them
T_no_tab == <<"O", "u", "t", "p", "u", "t", " ", "l", "i", "n", "e", " ", "c", "o", "n", "t", "a", "i", "n", "s", " ", "n", "o", " ", "'", "\\", "t", "'">>
T_more_than_one_tab == <<"O", "u", "t", "p", "u", "t", " ", "l", "i", "n", "e", " ", "c", "o", "n", "t", "a", "i", "n", "s", " ", "m", "o", "r", "e", " ", "t", "h", "a", "n", " ", "o", "n", "e", " ", "'", "\\", "t", "'">>
T_ls_remote_failed == <<"g", "i", "t", " ", "l", "s", "-", "r", "e", "m", "o", "t", "e", " ", "f", "a", "i", "l", "e", "d", " ", "w", "i", "t", "h", " ", "e", "x", "i", "t", " ", "c", "o", "d", "e", " ">>

\* line.split_once('\t') and the check that ref_ holds no further tab
ParseLine(line) ==
    LET i == IndexOf(line, "\t")
        revision == SubSeq(line, 1, i - 1)
        ref_ == SubSeq(line, i + 1, Len(line))
    IN IF i = 0
       THEN [ok |-> FALSE, err |-> "no_tab", message |-> T_no_tab,
             revision |-> <<>>, ref_ |-> <<>>]
       ELSE IF IndexOf(ref_, "\t") # 0
       THEN [ok |-> FALSE, err |-> "more_than_one_tab", message |-> T_more_than_one_tab,
             revision |-> <<>>, ref_ |-> <<>>]
       ELSE [ok |-> TRUE, err |-> "none", message |-> <<>>, revision |-> revision, ref_ |-> ref_]

\* a line that does not parse left out of the result
RECURSIVE CollectLines_Skip(_)
CollectLines_Skip(lines) ==
    IF lines = <<>> THEN [ok |-> TRUE, err |-> "none", message |-> <<>>, remotes |-> <<>>]
    ELSE IF Head(lines) = <<>> THEN CollectLines_Skip(Tail(lines))
    ELSE LET r == ParseLine(Head(lines))
             rest == CollectLines_Skip(Tail(lines))
         IN IF ~r.ok THEN rest
            ELSE IF ~rest.ok THEN rest
            ELSE [ok |-> TRUE, err |-> "none", message |-> <<>>,
                  remotes |-> <<[revision |-> r.revision, ref_ |-> r.ref_]>> \o rest.remotes]

\* .split('\n').filter(non-empty).map(parse).collect::<Result<Vec<RemoteInfo>>>():
\* the first failing line fails the whole
RECURSIVE CollectLines(_)
CollectLines(lines) ==
    IF lines = <<>> THEN [ok |-> TRUE, err |-> "none", message |-> <<>>, remotes |-> <<>>]
    ELSE IF Head(lines) = <<>> THEN CollectLines(Tail(lines))
    ELSE LET r == ParseLine(Head(lines))
             rest == CollectLines(Tail(lines))
         IN IF ~r.ok THEN [ok |-> FALSE, err |-> r.err, message |-> r.message, remotes |-> <<>>]
            ELSE IF ~rest.ok THEN rest
            ELSE [ok |-> TRUE, err |-> "none", message |-> <<>>,
                  remotes |-> <<[revision |-> r.revision, ref_ |-> r.ref_]>> \o rest.remotes]

\* check_git_url: passes the result on, adding context to a failure
check_git_url(result) == result

fetch_remote(exit_ok, out) ==
    IF ~exit_ok
    THEN [ok |-> FALSE, err |-> "ls_remote_failed", message |-> T_ls_remote_failed, remotes |-> <<>>]
    ELSE check_git_url(CollectLines(split(out, "\n")))

NoRemoteInfo == [revision |-> <<>>, ref_ |-> <<>>]

\* the first entry taken, whatever its name
FindRef_First(remotes, ref_) ==
    IF remotes = <<>> THEN [some |-> FALSE, val |-> NoRemoteInfo]
    ELSE [some |-> TRUE, val |-> Head(remotes)]

\* remotes.into_iter().find(|r| r.ref_ == ref_)
RECURSIVE FindRef(_, _)
FindRef(remotes, ref_) ==
    IF remotes = <<>> THEN [some |-> FALSE, val |-> NoRemoteInfo]
    ELSE IF Head(remotes).ref_ = ref_ THEN [some |-> TRUE, val |-> Head(remotes)]
    ELSE FindRef(Tail(remotes), ref_)

\* a listing without the requested ref reported as an empty listing
fetch_ref_NotFound(exit_ok, out, ref_) ==
    LET r == fetch_remote(exit_ok, out)
        found == FindRef(r.remotes, ref_)
    IN IF ~r.ok THEN [ok |-> FALSE, err |-> r.err, info |-> NoRemoteInfo]
       ELSE IF ~found.some THEN [ok |-> FALSE, err |-> "empty", info |-> NoRemoteInfo]
       ELSE [ok |-> TRUE, err |-> "none", info |-> found.val]

fetch_ref(exit_ok, out, ref_) ==
    LET r == fetch_remote(exit_ok, out)
        found == FindRef(r.remotes, ref_)
    IN IF ~r.ok THEN [ok |-> FALSE, err |-> r.err, info |-> NoRemoteInfo]
       ELSE IF r.remotes = <<>> THEN [ok |-> FALSE, err |-> "empty", info |-> NoRemoteInfo]
       ELSE IF ~found.some THEN [ok |-> FALSE, err |-> "not_contained", info |-> NoRemoteInfo]
       ELSE [ok |-> TRUE, err |-> "none", info |-> found.val]

fetch_branch_head(exit_ok, out, branch) == fetch_ref(exit_ok, out, RefsHeads \o branch)

fetch_tags(exit_ok, out) == fetch_remote(exit_ok, out)

(***************************************************************************)
(* url::Url, as far as Repository uses it.  A Url is kept as its           *)
(* serialization; the sample URLs are https URLs without query, fragment   *)
(* or characters that need escaping, except the "/" of a path segment.     *)
(***************************************************************************)
T_scheme_sep == <<":", "/", "/">>

\* position of the first occurrence of the text p in s, 0 when absent
Find(s, p) ==
    IF \E i \in 1..(Len(s) - Len(p) + 1) : SubSeq(s, i, i + Len(p) - 1) = p
    THEN CHOOSE i \in 1..(Len(s) - Len(p) + 1) :
             /\ SubSeq(s, i, i + Len(p) - 1) = p
             /\ \A j \in 1..(i - 1) : SubSeq(s, j, j + Len(p) - 1) # p
    ELSE 0

\* str::contains
Contains(s, p) == Find(s, p) # 0

\* position of the last occurrence of the character c in s, 0 when absent
LastIndexOf(s, c) ==
    IF \E i \in 1..Len(s) : s[i] = c
    THEN CHOOSE i \in 1..Len(s) : s[i] = c /\ \A j \in (i + 1)..Len(s) : s[j] # c
    ELSE 0

\* where the authority starts: after "://"
AuthorityStart(u) == Find(u, T_scheme_sep) + Len(T_scheme_sep)

\* where the path starts: the first "/" after the authority, 0 when absent
PathStart(u) ==
    LET a == AuthorityStart(u)
        i == IndexOf(SubSeq(u, a, Len(u)), "/")
    IN IF i = 0 THEN 0 ELSE a + i - 1

NoUrl == [ok |-> FALSE, val |-> <<>>]

\* str::parse::<Url>: a text without a scheme is refused, the empty path of
\* an https URL becomes "/"
UrlParse(text) ==
    IF Find(text, T_scheme_sep) = 0 THEN NoUrl
    ELSE IF PathStart(text) = 0 THEN [ok |-> TRUE, val |-> text \o <<"/">>]
    ELSE [ok |-> TRUE, val |-> text]

\* Url::set_username followed by Url::set_password
SetCredentials(u, username, password) ==
    LET a == AuthorityStart(u)
    IN SubSeq(u, 1, a - 1) \o username \o <<":">> \o password \o <<"@">> \o SubSeq(u, a, Len(u))

\* Url::join of a relative path: it replaces the last segment of the path
UrlJoin(u, relative) == SubSeq(u, 1, LastIndexOf(u, "/")) \o relative

\* the percent-encoding of one path segment
RECURSIVE EncodeSegment(_)
EncodeSegment(seg) ==
    IF seg = <<>> THEN <<>>
    ELSE (IF Head(seg) = "/" THEN <<"%", "2", "F">> ELSE <<Head(seg)>>) \o EncodeSegment(Tail(seg))

\* PathSegmentsMut::extend: a "/" is pushed before a segment unless the path
\* is just "/"
RECURSIVE ExtendPath(_, _)
ExtendPath(u, segments) ==
    IF segments = <<>> THEN u
    ELSE ExtendPath((IF Len(u) > PathStart(u) THEN u \o <<"/">> ELSE u)
                        \o EncodeSegment(Head(segments)),
                    Tail(segments))

\* Url::set_query(Some(query)): the query of the URL is replaced
SetQuery(u, query) ==
    LET q == IndexOf(u, "?")
    IN (IF q = 0 THEN u ELSE SubSeq(u, 1, q - 1)) \o <<"?">> \o query

(***************************************************************************)
(* Repository and the environment variables it reads.                      *)
(***************************************************************************)
T_github == <<"h", "t", "t", "p", "s", ":", "/", "/", "g", "i", "t", "h", "u", "b", ".", "c", "o", "m">>
T_github_api == <<"h", "t", "t", "p", "s", ":", "/", "/", "a", "p", "i", ".", "g", "i", "t", "h", "u", "b", ".", "c", "o", "m">>
T_oauth2 == <<"o", "a", "u", "t", "h", "2">>
T_dot_git == <<".", "g", "i", "t">>
T_archive == <<"/", "a", "r", "c", "h", "i", "v", "e", "/">>
T_tar_gz == <<".", "t", "a", "r", ".", "g", "z">>
T_sha == <<"s", "h", "a", "=">>
T_private_token == <<"p", "r", "i", "v", "a", "t", "e", "_", "t", "o", "k", "e", "n", "=">>

\* std::env::var of NPINS_GITHUB_HOST, or the default
get_github_url(env) ==
    IF env.NPINS_GITHUB_HOST.some THEN env.NPINS_GITHUB_HOST.val ELSE T_github

\* std::env::var of NPINS_GITHUB_API_HOST, or the default
get_github_api_url(env) ==
    IF env.NPINS_GITHUB_API_HOST.some THEN env.NPINS_GITHUB_API_HOST.val ELSE T_github_api

\* Repository::git_url
git_url(repo, env) ==
    CASE repo.kind = "Git" -> [ok |-> TRUE, val |-> repo.url]
      [] repo.kind = "GitHub" ->
            UrlParse(get_github_url(env) \o <<"/">> \o repo.owner \o <<"/">> \o repo.repo \o T_dot_git)
      [] repo.kind = "Forgejo" ->
            UrlParse(repo.server \o <<"/">> \o repo.owner \o <<"/">> \o repo.repo \o T_dot_git)
      [] repo.kind = "GitLab" ->
            LET server == IF repo.private_token.some
                          THEN SetCredentials(repo.server, T_oauth2, repo.private_token.val)
                          ELSE IF env.GITLAB_TOKEN.some
                          THEN SetCredentials(repo.server, T_oauth2, env.GITLAB_TOKEN.val)
                          ELSE repo.server
            IN [ok |-> TRUE, val |-> UrlJoin(server, repo.repo \o T_dot_git)]

NoOptUrl == [ok |-> TRUE, some |-> FALSE, val |-> <<>>]
OptUrl(parsed) == [ok |-> parsed.ok, some |-> parsed.ok, val |-> parsed.val]

\* the GitLab archive URL of Repository::url and Repository::release_url
GitLabArchive(repo, rev_or_tag) ==
    LET path == ExtendPath(repo.server,
                           <<<<"a", "p", "i">>, <<"v", "4">>, <<"p", "r", "o", "j", "e", "c", "t", "s">>, repo.repo, <<"r", "e", "p", "o", "s", "i", "t", "o", "r", "y">>, <<"a", "r", "c", "h", "i", "v", "e", ".", "t", "a", "r", ".", "g", "z">>>>)
        with_sha == SetQuery(path, T_sha \o rev_or_tag)
    IN IF repo.private_token.some
       THEN SetQuery(with_sha, T_private_token \o repo.private_token.val)
       ELSE with_sha

\* Repository::url: Result<Option<Url>>
url(repo, env, rev) ==
    CASE repo.kind = "Git" -> NoOptUrl
      [] repo.kind = "GitHub" ->
            OptUrl(UrlParse(get_github_url(env) \o <<"/">> \o repo.owner \o <<"/">> \o repo.repo
                            \o T_archive \o rev \o T_tar_gz))
      [] repo.kind = "Forgejo" ->
            OptUrl(UrlParse(repo.server \o repo.owner \o <<"/">> \o repo.repo
                            \o T_archive \o rev \o T_tar_gz))
      [] repo.kind = "GitLab" ->
            [ok |-> TRUE, some |-> TRUE, val |-> GitLabArchive(repo, rev)]

\* Repository::release_url: Result<Option<Url>>
release_url(repo, env, tag) ==
    CASE repo.kind = "Git" -> NoOptUrl
      [] repo.kind = "GitHub" ->
            OptUrl(UrlParse(get_github_api_url(env) \o <<"/", "r", "e", "p", "o", "s", "/">> \o repo.owner \o <<"/">> \o repo.repo
                            \o <<"/", "t", "a", "r", "b", "a", "l", "l", "/", "r", "e", "f", "s", "/", "t", "a", "g", "s", "/">> \o tag))
      [] repo.kind = "Forgejo" ->
            OptUrl(UrlParse(repo.server \o <<"a", "p", "i", "/", "v", "1", "/", "r", "e", "p", "o", "s", "/">> \o repo.owner \o <<"/">> \o repo.repo
                            \o T_archive \o tag \o T_tar_gz))
      [] repo.kind = "GitLab" ->
            [ok |-> TRUE, some |-> TRUE, val |-> GitLabArchive(repo, tag)]

\* the repositories of the model
T_o == <<"o">>
T_r == <<"r">>
T_o_r == <<"o", "/", "r">>
T_tok == <<"t", "o", "k">>
T_envtok == <<"e", "n", "v", "t", "o", "k">>
NoRepository == [kind |-> "Git", url |-> <<>>, server |-> <<>>, owner |-> <<>>, repo |-> <<>>,
                 private_token |-> NoneStr]
\* the server texts a configuration gives; the Url kept is their parse
ServerTexts == {<<"h", "t", "t", "p", "s", ":", "/", "/", "h">>, <<"h", "t", "t", "p", "s", ":", "/", "/", "h", "/", "p">>, <<"h", "t", "t", "p", "s", ":", "/", "/", "h", "/", "p", "/">>}
Repositories ==
    {[NoRepository EXCEPT !.url = UrlParse(<<"h", "t", "t", "p", "s", ":", "/", "/", "h", "/", "o", "/", "r", ".", "g", "i", "t">>).val]}
    \cup {[NoRepository EXCEPT !.kind = "GitHub", !.owner = T_o, !.repo = T_r]}
    \cup {[NoRepository EXCEPT !.kind = "Forgejo", !.server = UrlParse(s).val, !.owner = T_o, !.repo = T_r] :
             s \in ServerTexts}
    \cup {[NoRepository EXCEPT !.kind = "GitLab", !.server = UrlParse(<<"h", "t", "t", "p", "s", ":", "/", "/", "h">>).val,
                               !.repo = T_o_r, !.private_token = t] :
             t \in {NoneStr, SomeStr(T_tok)}}

NoEnv == [GITLAB_TOKEN |-> NoneStr, NPINS_GITHUB_HOST |-> NoneStr, NPINS_GITHUB_API_HOST |-> NoneStr]
Environments ==
    {NoEnv,
     [NoEnv EXCEPT !.GITLAB_TOKEN = SomeStr(T_envtok)],
     [NoEnv EXCEPT !.NPINS_GITHUB_HOST = SomeStr(<<"h", "t", "t", "p", "s", ":", "/", "/", "g">>),
                   !.NPINS_GITHUB_API_HOST = SomeStr(<<"h", "t", "t", "p", "s", ":", "/", "/", "a">>)]}

(***************************************************************************)
(* The hashing functions of crate::nix.  A hash is kept as the description *)
(* of what was hashed; a prefetch may fail.                                *)
(***************************************************************************)
NoHash == [by |-> "none", url |-> <<>>, rev |-> <<>>, submodules |-> FALSE]

nix_prefetch_tarball(u, prefetch_ok) ==
    [ok |-> prefetch_ok,
     hash |-> [by |-> "nix_prefetch_tarball", url |-> u, rev |-> <<>>, submodules |-> FALSE]]

nix_prefetch_git(u, rev, include_submodules, prefetch_ok) ==
    [ok |-> prefetch_ok,
     hash |-> [by |-> "nix_prefetch_git", url |-> u, rev |-> rev, submodules |-> include_submodules]]

(***************************************************************************)
(* State.                                                                  *)
(***************************************************************************)
VARIABLES
    pre_releases,         \* GitReleasePin.pre_releases
    version_upper_bound,  \* GitReleasePin.version_upper_bound: Option<String>
    release_prefix,       \* GitReleasePin.release_prefix: Option<String>
    tags,                 \* the tag names of the remote, in listing order
    pinned,               \* the version the caller holds: Option<GenericVersion>
    call,                 \* the last call: its arguments, locals and result
    revision_text,        \* the text given to GitRevision::new
    repository,           \* GitPin.repository: the variant of Repository
    branch,               \* GitPin.branch
    remote_out,           \* what git ls-remote prints for the requested ref
    fetched,              \* the result of the last fetch_ref
    revision,             \* the last Result<GitRevision>
    remote_infos,         \* the result of the last fetch_remote
    http_gets,            \* the HTTP GET requests the last GitPin::update sent
    submodules,           \* the submodules flag of the pin
    env,                  \* the environment variables of the process
    hashes,               \* the result of the last fetch
    shown,                \* the last property list the presenter was given
    procs                 \* the update calls in progress, one per pin

releaseVars == <<pre_releases, version_upper_bound, release_prefix, tags, pinned, call>>
branchVars == <<revision_text, repository, branch, remote_out, fetched, revision>>
listingVars == <<remote_infos, http_gets>>
fetchVars == <<submodules, env, hashes, shown>>
vars == <<pre_releases, version_upper_bound, release_prefix, tags, pinned, call,
          revision_text, repository, branch, remote_out, fetched, revision,
          remote_infos, http_gets, submodules, env, hashes, shown, procs>>

NoFetched == [ok |-> FALSE, err |-> "none", info |-> NoRemoteInfo]
NoListed == [ok |-> FALSE, err |-> "none", message |-> <<>>, remotes |-> <<>>]
NoHashes == [op |-> "none", status |-> "none", err |-> "none", looked_up |-> <<>>,
             revision |-> <<>>, url |-> NoneStr, hash |-> NoHash]
NoShown == [entity |-> "none", props |-> <<>>]
NoRevision == [status |-> "none", err |-> "none", revision |-> <<>>, timestamp |-> NoneStr]

\* the variables a specification does not use
NoListing ==
    /\ remote_infos = NoListed
    /\ http_gets = 0

NoFetch ==
    /\ submodules = FALSE
    /\ env = NoEnv
    /\ hashes = NoHashes
    /\ shown = NoShown

NoBranch ==
    /\ revision_text = <<>>
    /\ repository = NoRepository
    /\ branch = <<>>
    /\ remote_out = <<>>
    /\ fetched = NoFetched
    /\ revision = NoRevision
    /\ NoListing
    /\ NoFetch
    /\ procs = <<>>

NoCall == [op |-> "none", old |-> NoneStr, latest |-> NoRelease,
           status |-> "none", err |-> "none", version |-> <<>>]

\* the object name the remote lists for a tag: 40 hexadecimal characters made
\* from the characters of the tag, so that the sample tags have different ones
HexOf(c) ==
    IF IsHexDigit(c) THEN c
    ELSE IF c \in Range(AsciiOrder) THEN <<"a", "b", "c", "d", "e", "f">>[(CharOrd(c) % 6) + 1]
    ELSE "e"
RevisionOfTag(tag) == [i \in 1..40 |-> IF i <= Len(tag) THEN HexOf(tag[i]) ELSE "0"]

\* the entries `git ls-remote --refs <repo> refs/tags/*` lists
RECURSIVE TagEntries(_)
TagEntries(ts) ==
    IF ts = <<>> THEN <<>>
    ELSE <<[revision |-> RevisionOfTag(Head(ts)), ref_ |-> RefsTags \o Head(ts)]>>
         \o TagEntries(Tail(ts))

(***************************************************************************)
(* GitReleasePin::update                                                   *)
(***************************************************************************)
\* .filter_map(|tag| tag.ref_.strip_prefix("refs/tags/"))
RECURSIVE TagNames(_)
TagNames(remotes) ==
    IF remotes = <<>> THEN <<>>
    ELSE LET r == strip_prefix(Head(remotes).ref_, RefsTags)
         IN (IF r.some THEN <<r.val>> ELSE <<>>) \o TagNames(Tail(remotes))

\* the old version with the release prefix stripped, or as it is
NormalizeOld(o, prefix) ==
    IF ~o.some THEN NoneStr
    ELSE IF ~prefix.some THEN o
    ELSE LET r == strip_prefix(o.val, prefix.val)
         IN IF r.some THEN SomeStr(r.val) ELSE SomeStr(o.val)

\* the comparison left out
EnsureMonotonic_Unchecked(latest_version, old_version) == TRUE

\* the comparison made strict
EnsureMonotonic_Strict(latest_version, old_version) == CmpVersion(latest_version, old_version) > 0

\* anyhow::ensure!(latest >= old_version, ...)
EnsureMonotonic(latest_version, old_version) == CmpVersion(latest_version, old_version) >= 0

\* the display name returned in place of the tag
UpdatedVersion_Name(l) == l.name

\* Ok(GenericVersion { version: latest.tag })
UpdatedVersion(l) == l.tag

Failed(kind, o, l) ==
    [op |-> "update", old |-> o, latest |-> l,
     status |-> "err", err |-> kind, version |-> <<>>]

\* a bound that does not parse taken as no bound
ParseUpperBound_Lenient(bound_text) ==
    IF bound_text.some /\ parse(bound_text.val).ok
    THEN [ok |-> TRUE, bound |-> SomeBound(parse(bound_text.val).v)]
    ELSE [ok |-> TRUE, bound |-> NoBound]

\* the version_upper_bound of the pin, parsed before anything is fetched
ParseUpperBound(bound_text) ==
    IF ~bound_text.some THEN [ok |-> TRUE, bound |-> NoBound]
    ELSE IF parse(bound_text.val).ok
    THEN [ok |-> TRUE, bound |-> SomeBound(parse(bound_text.val).v)]
    ELSE [ok |-> FALSE, bound |-> NoBound]

\* the storage tag parsed in place of the display name
LatestVersionText_Tag(l) == l.tag

\* the text parsed before the comparison: &latest.name
LatestVersionText(l) == l.name

\* GitReleasePin::update from the point where fetch_tags has returned
update_after_listing(pre, bound_text, prefix, listed, o) ==
    LET bound == ParseUpperBound(bound_text)
        l == latest_release(TagNames(listed.remotes), pre, bound.bound, prefix)
        norm == NormalizeOld(o, prefix)
        old_version == parse(norm.val)
        latest_version == parse(LatestVersionText(l))
    IN IF ~bound.ok THEN Failed("invalid_upper_bound", o, NoRelease)
       ELSE IF ~listed.ok THEN Failed("fetch_tags", o, NoRelease)
       ELSE IF ~l.some THEN Failed("no_matching_release", o, NoRelease)
       ELSE IF norm.some /\ ~latest_version.ok
            THEN [op |-> "update", old |-> o, latest |-> l,
                  status |-> "panic", err |-> "latest_must_parse", version |-> <<>>]
       ELSE IF norm.some /\ old_version.ok /\ ~EnsureMonotonic(latest_version.v, old_version.v)
            THEN Failed("monotonicity", o, l)
       ELSE [op |-> "update", old |-> o, latest |-> l,
             status |-> "ok", err |-> "none", version |-> UpdatedVersion(l)]

\* GitReleasePin::update
update(pre, bound_text, prefix, exit_ok, out, o) ==
    update_after_listing(pre, bound_text, prefix, fetch_tags(exit_ok, out), o)

(***************************************************************************)
(* The release pin and its remote: tags are pushed and deleted on the      *)
(* remote, and the caller updates the pin, keeping a successful result.    *)
(***************************************************************************)
MaxRemoteTags == 2
RemoteTags == {T_1_0, T_2_0, T_2_0_pre, T_foo, T_v1_0, T_vv1_0, T_zes_1_0, T_zes_2_0}
PinPrefixes == {NoneStr, SomeStr(T_v), SomeStr(T_zes)}
PinUpperBounds == {NoneStr, SomeStr(T_2), SomeStr(T_foo)}
\* versions a caller may hold before the first update
HeldVersions == {NoneStr, SomeStr(T_1_0), SomeStr(T_zes_2_0), SomeStr(T_foo)}

Init ==
    /\ pre_releases \in BOOLEAN
    /\ version_upper_bound \in PinUpperBounds
    /\ release_prefix \in PinPrefixes
    /\ tags = <<>>
    /\ pinned \in HeldVersions
    /\ call = NoCall
    /\ NoBranch

PushTag ==
    /\ Len(tags) < MaxRemoteTags
    /\ \E t \in RemoteTags, i \in 0..Len(tags) :
           tags' = SubSeq(tags, 1, i) \o <<t>> \o SubSeq(tags, i + 1, Len(tags))
    /\ UNCHANGED <<pre_releases, version_upper_bound, release_prefix, pinned, call>>
    /\ UNCHANGED <<branchVars, listingVars, fetchVars, procs>>

DeleteTag ==
    /\ \E i \in 1..Len(tags) :
           tags' = SubSeq(tags, 1, i - 1) \o SubSeq(tags, i + 1, Len(tags))
    /\ UNCHANGED <<pre_releases, version_upper_bound, release_prefix, pinned, call>>
    /\ UNCHANGED <<branchVars, listingVars, fetchVars, procs>>

Update ==
    /\ \E exit_ok \in BOOLEAN :
           call' = update(pre_releases, version_upper_bound, release_prefix,
                          exit_ok, ls_remote_stdout(TagEntries(tags)), pinned)
    /\ pinned' = IF call'.status = "ok" THEN SomeStr(call'.version) ELSE pinned
    /\ UNCHANGED <<pre_releases, version_upper_bound, release_prefix, tags>>
    /\ UNCHANGED <<branchVars, listingVars, fetchVars, procs>>

Next == PushTag \/ DeleteTag \/ Update

Spec == Init /\ [][Next]_vars

(***************************************************************************)
(* The Release Selector on its own: the inputs are drawn at the start and  *)
(* latest_release is applied to them.                                      *)
(***************************************************************************)
InitSelector ==
    /\ pre_releases \in BOOLEAN
    /\ version_upper_bound \in UpperBounds
    /\ release_prefix \in Prefixes
    /\ tags \in SeqsUpTo(SelectorTags, MaxTags)
    /\ pinned = NoneStr
    /\ call = NoCall
    /\ NoBranch

SelectorBound == IF version_upper_bound.some THEN SomeBound(parse(version_upper_bound.val).v) ELSE NoBound

LatestRelease ==
    /\ call.op = "none"
    /\ call' = [NoCall EXCEPT !.op = "latest_release",
                              !.latest = latest_release(tags, pre_releases, SelectorBound, release_prefix)]
    /\ UNCHANGED <<pre_releases, version_upper_bound, release_prefix, tags, pinned>>
    /\ UNCHANGED <<branchVars, listingVars, fetchVars, procs>>

NextSelector == LatestRelease

SpecSelector == InitSelector /\ [][NextSelector]_vars

(***************************************************************************)
(* Properties of GitReleasePin::update (specification Spec).               *)
(***************************************************************************)
\* the version a held value stands for: its text with the release prefix
\* stripped, parsed leniently
HeldVersion(o) == parse(NormalizeOld(o, release_prefix).val)

\* C1: a release pin never regresses: when the prefix-normalized value held
\* before a step and the one held after it both parse as versions, the later
\* one is not less than the earlier one.
C1_NeverRegresses ==
    [][(pinned.some /\ pinned'.some /\ HeldVersion(pinned).ok /\ HeldVersion(pinned').ok)
         => CmpVersion(HeldVersion(pinned').v, HeldVersion(pinned).v) >= 0]_vars

\* an update with a parseable old version has succeeded with a strictly newer one
C1_Witness ==
    /\ call.op = "update" /\ call.status = "ok"
    /\ call.old.some /\ HeldVersion(call.old).ok
    /\ pinned = SomeStr(call.version)
    /\ CmpVersion(HeldVersion(pinned).v, HeldVersion(call.old).v) = 1

\* C2: an update that has selected a release fails exactly when the release is
\* below the parseable old version, and with the monotonicity error; it
\* succeeds on equal or newer, and always when the old value is absent or
\* does not parse.
C2_FailsExactlyWhenOlder ==
    (call.op = "update" /\ call.latest.some) =>
        LET old_version == HeldVersion(call.old)
            new_version == parse(call.latest.name)
        IN IF call.old.some /\ old_version.ok
           THEN /\ call.status \in {"ok", "err"}
                /\ (call.status = "err") <=> (CmpVersion(new_version.v, old_version.v) = -1)
                /\ (call.status = "err") => (call.err = "monotonicity")
           ELSE call.status = "ok"

\* an update has been refused because the selected release is older
C2_Witness ==
    /\ call.op = "update" /\ call.latest.some /\ call.old.some
    /\ HeldVersion(call.old).ok
    /\ call.status = "err" /\ call.err = "monotonicity"
    /\ CmpVersion(parse(call.latest.name).v, HeldVersion(call.old).v) = -1

\* C10 as stated: a successful update returns the display name of the release.
C10_ReturnsDisplayName ==
    (call.op = "update" /\ call.status = "ok") => call.version = call.latest.name

\* C10, amended: a successful update returns the storage tag of the selected
\* release, the display name with the release prefix re-attached; it is the
\* display name only when no prefix is configured.
C10_ReturnsStorageTag ==
    (call.op = "update" /\ call.status = "ok") =>
        /\ call.latest.some
        /\ call.version = call.latest.tag
        /\ IF release_prefix.some
           THEN /\ call.version = release_prefix.val \o call.latest.name
                /\ call.version # call.latest.name
           ELSE call.version = call.latest.name

\* an update of a pin with a release prefix has succeeded
C10_Witness ==
    /\ call.op = "update" /\ call.status = "ok"
    /\ release_prefix.some /\ release_prefix.val # <<>>
    /\ call.version = release_prefix.val \o call.latest.name

\* C16: an update of a pin whose version_upper_bound does not parse ends in
\* the configuration error and returns no version, whatever the remote tags
\* and the old version are; the value held is left as it was.
C16_InvalidBoundIsAnError ==
    (call.op = "update" /\ version_upper_bound.some /\ ~parse(version_upper_bound.val).ok) =>
        /\ call.status = "err"
        /\ call.err = "invalid_upper_bound"
        /\ call.version = <<>>
        /\ ~call.latest.some
        /\ pinned = call.old

\* an update with a bound that does not parse has been refused although the
\* remote offers a release and the old version parses
C16_Witness ==
    /\ call.op = "update" /\ call.status = "err" /\ call.err = "invalid_upper_bound"
    /\ version_upper_bound = SomeStr(T_foo)
    /\ call.old.some /\ HeldVersion(call.old).ok
    /\ \E t \in Range(tags) : parse(NormalizeOld(SomeStr(t), release_prefix).val).ok

\* C22: the parse of the selected release that precedes the comparison never
\* fails: no update ends in the panic "Latest version must parse as SemVer",
\* and an update that has an old version and a selected release finds the
\* text it parses to be a version.
C22_LatestAlwaysParses ==
    /\ call.status # "panic"
    /\ (call.op = "update" /\ call.latest.some /\ call.old.some) =>
           parse(LatestVersionText(call.latest)).ok

\* an update with an old version has selected a release whose storage tag,
\* unlike the display name that is parsed, is not a version
C22_Witness ==
    /\ call.op = "update" /\ call.status = "ok"
    /\ call.old.some /\ call.latest.some
    /\ release_prefix = SomeStr(T_zes)
    /\ ~parse(call.latest.tag).ok

(***************************************************************************)
(* Properties of latest_release (specification SpecSelector).              *)
(***************************************************************************)
Selected == call.op = "latest_release" /\ call.latest.some

\* the tag text the selector parses: the tag without the prefix
Stripped(t) == IF release_prefix.some THEN strip_prefix(t, release_prefix.val) ELSE SomeStr(t)

\* E: the tags that survive the prefix, the parse, the pre-release gate and
\* the upper bound
Eligible ==
    {t \in Range(tags) :
        /\ Stripped(t).some
        /\ parse(Stripped(t).val).ok
        /\ (pre_releases \/ parse(Stripped(t).val).v.pre = <<>>)
        /\ (version_upper_bound.some =>
               CmpVersion(parse(Stripped(t).val).v, parse(version_upper_bound.val).v) < 0)}

VersionOfTag(t) == parse(Stripped(t).val).v

\* C3: with an upper bound, the version of the returned release is strictly
\* less than the bound.
C3_BelowUpperBound ==
    (Selected /\ version_upper_bound.some) =>
        CmpVersion(parse(call.latest.name).v, parse(version_upper_bound.val).v) = -1

\* a release is returned although a tag equal to the bound is offered
C3_Witness ==
    /\ Selected /\ version_upper_bound.some
    /\ \E t \in Range(tags) :
          /\ Stripped(t).some /\ parse(Stripped(t).val).ok
          /\ CmpVersion(parse(Stripped(t).val).v, parse(version_upper_bound.val).v) = 0

\* C4: without pre_releases the returned version is never a pre-release; with
\* pre_releases a pre-release that is above every other eligible tag is
\* returned; tags 1.0, 2.0, 2.0-pre under the bound 2 give 1.0 and 2.0-pre.
C4_PreReleaseGate ==
    /\ (Selected /\ ~pre_releases) => ~is_pre_release(parse(call.latest.name).v)
    /\ (call.op = "latest_release" /\ pre_releases) =>
          \A t \in Eligible :
              (/\ is_pre_release(VersionOfTag(t))
               /\ \A u \in Eligible \ {t} : CmpVersion(VersionOfTag(t), VersionOfTag(u)) = 1)
              => (call.latest.some /\ call.latest.name = Stripped(t).val)
    /\ (/\ call.op = "latest_release"
        /\ tags = <<T_1_0, T_2_0, T_2_0_pre>>
        /\ version_upper_bound = SomeStr(T_2)
        /\ ~release_prefix.some)
       => call.latest.name = (IF pre_releases THEN T_2_0_pre ELSE T_1_0)

\* the pre-release 2.0-pre is returned from 1.0, 2.0, 2.0-pre under the bound 2
C4_Witness ==
    /\ Selected /\ pre_releases
    /\ tags = <<T_1_0, T_2_0, T_2_0_pre>>
    /\ version_upper_bound = SomeStr(T_2)
    /\ call.latest.name = T_2_0_pre

\* C5 as stated: the storage tag is prefix + display name, comes from a tag
\* that starts with the prefix, and the display name does not start with the
\* prefix.
C5_DisplayNameNeverCarriesPrefix ==
    (Selected /\ release_prefix.some) =>
        /\ call.latest.tag \in Range(tags)
        /\ starts_with(call.latest.tag, release_prefix.val)
        /\ call.latest.tag = release_prefix.val \o call.latest.name
        /\ ~starts_with(call.latest.name, release_prefix.val)

\* C5, amended: the storage tag is one of the offered tags, starts with the
\* prefix and equals prefix + display name; the display name is the storage
\* tag without one leading occurrence of the prefix, so it starts with the
\* prefix only when the tag starts with the prefix twice.
C5_PrefixStrippedOnce ==
    (Selected /\ release_prefix.some) =>
        /\ call.latest.tag \in Range(tags)
        /\ starts_with(call.latest.tag, release_prefix.val)
        /\ call.latest.tag = release_prefix.val \o call.latest.name
        /\ Len(call.latest.name) = Len(call.latest.tag) - Len(release_prefix.val)
        /\ starts_with(call.latest.name, release_prefix.val)
             <=> starts_with(call.latest.tag, release_prefix.val \o release_prefix.val)

\* a release is returned whose tag starts with the prefix twice
C5_Witness ==
    /\ Selected /\ release_prefix.some /\ release_prefix.val # <<>>
    /\ starts_with(call.latest.tag, release_prefix.val \o release_prefix.val)
    /\ \E t \in Range(tags) : ~starts_with(t, release_prefix.val)

\* C6: the selector returns no match exactly when E is empty, and otherwise a
\* member of E whose version is not below the version of any member of E.
C6_MaximumOfEligible ==
    (call.op = "latest_release") =>
        /\ call.latest.some <=> (Eligible # {})
        /\ call.latest.some =>
              \E t \in Eligible :
                  /\ call.latest.name = Stripped(t).val
                  /\ call.latest.tag = t
                  /\ \A u \in Eligible : CmpVersion(VersionOfTag(t), VersionOfTag(u)) >= 0

\* the maximum is returned from eligible tags of different versions, offered
\* next to a tag that is not eligible
C6_Witness ==
    /\ Selected
    /\ \E t, u \in Eligible : CmpVersion(VersionOfTag(t), VersionOfTag(u)) = 1
    /\ Range(tags) \ Eligible # {}
    /\ tags[1] = call.latest.tag

(***************************************************************************)
(* GitRevision::new                                                        *)
(***************************************************************************)
RevLen == 40

\* the test made a conjunction: a text is refused only when both checks fail
GitRevision_new_Conjunction(text) ==
    IF ~(\A i \in 1..Len(text) : IsHexDigit(text[i])) /\ Len(text) # RevLen
    THEN [status |-> "err", err |-> "not_a_valid_git_revision", revision |-> <<>>, timestamp |-> NoneStr]
    ELSE [status |-> "ok", err |-> "none", revision |-> text, timestamp |-> NoneStr]

\* the sample characters are ASCII, so String::len is the number of characters
GitRevision_new(text) ==
    IF ~(\A i \in 1..Len(text) : IsHexDigit(text[i])) \/ Len(text) # RevLen
    THEN [status |-> "err", err |-> "not_a_valid_git_revision", revision |-> <<>>, timestamp |-> NoneStr]
    ELSE [status |-> "ok", err |-> "none", revision |-> text, timestamp |-> NoneStr]

MaxRevLen == 41
FillChars == {"0", "a", "F", "g"}
OddChars == {"9", "f", "A", "G", "-", "z"}
\* texts of one character, with at most one other character somewhere
RevisionTexts ==
    {[i \in 1..n |-> IF i = k THEN odd ELSE fill] :
        n \in 0..MaxRevLen, k \in {0, 1, RevLen, MaxRevLen}, fill \in FillChars, odd \in OddChars}

NoReleasePin ==
    /\ pre_releases = FALSE
    /\ version_upper_bound = NoneStr
    /\ release_prefix = NoneStr
    /\ tags = <<>>
    /\ pinned = NoneStr
    /\ call = NoCall

InitRevision ==
    /\ NoReleasePin
    /\ revision_text \in RevisionTexts
    /\ repository = NoRepository
    /\ branch = <<>>
    /\ remote_out = <<>>
    /\ fetched = NoFetched
    /\ revision = NoRevision
    /\ NoListing
    /\ NoFetch
    /\ procs = <<>>

New ==
    /\ revision.status = "none"
    /\ revision' = GitRevision_new(revision_text)
    /\ UNCHANGED <<revision_text, repository, branch, remote_out, fetched>>
    /\ UNCHANGED <<releaseVars, listingVars, fetchVars, procs>>

NextRevision == New

SpecRevision == InitRevision /\ [][NextRevision]_vars

HexChars == {"0", "1", "2", "3", "4", "5", "6", "7", "8", "9",
             "a", "b", "c", "d", "e", "f", "A", "B", "C", "D", "E", "F"}

IsRevision(text) == Len(text) = 40 /\ \A i \in 1..Len(text) : text[i] \in HexChars

\* C7: GitRevision::new accepts a text exactly when it is 40 hexadecimal
\* characters of either case; it keeps an accepted text unchanged with no
\* timestamp, and refuses every other text with an error.
C7_AcceptsExactly40Hex ==
    (revision.status # "none") =>
        IF IsRevision(revision_text)
        THEN /\ revision.status = "ok"
             /\ revision.revision = revision_text
             /\ ~revision.timestamp.some
        ELSE revision.status = "err"

\* a text of 40 hexadecimal characters of both cases has been accepted
C7_Witness ==
    /\ revision.status = "ok"
    /\ Len(revision_text) = 40
    /\ \E i, j \in 1..40 : revision_text[i] = "a" /\ revision_text[j] = "A"

(***************************************************************************)
(* GitPin::update, fetch_ref and Repository::get_timestamp                 *)
(***************************************************************************)
\* the answers of the GitHub commit API: no answer, an answer without a date
\* string, an answer with one
T_date == <<"2", "0", "1", "8">>
ApiResponses == {[ok |-> FALSE, date |-> NoneStr],
                 [ok |-> TRUE, date |-> NoneStr],
                 [ok |-> TRUE, date |-> SomeStr(T_date)]}

\* the lookup made for the Forgejo variant as well
get_timestamp_Forgejo(repo, response) ==
    IF repo.kind \in {"GitHub", "Forgejo"}
    THEN IF ~response.ok THEN [ok |-> FALSE, err |-> "fetch_timestamp", val |-> NoneStr, gets |-> 1]
         ELSE IF ~response.date.some
         THEN [ok |-> FALSE, err |-> "date_not_a_string", val |-> NoneStr, gets |-> 1]
         ELSE [ok |-> TRUE, err |-> "none", val |-> response.date, gets |-> 1]
    ELSE [ok |-> TRUE, err |-> "none", val |-> NoneStr, gets |-> 0]

\* Repository::get_timestamp; gets counts the HTTP GET requests it sends
get_timestamp(repo, response) ==
    IF repo.kind = "GitHub"
    THEN IF ~response.ok THEN [ok |-> FALSE, err |-> "fetch_timestamp", val |-> NoneStr, gets |-> 1]
         ELSE IF ~response.date.some
         THEN [ok |-> FALSE, err |-> "date_not_a_string", val |-> NoneStr, gets |-> 1]
         ELSE [ok |-> TRUE, err |-> "none", val |-> response.date, gets |-> 1]
    ELSE [ok |-> TRUE, err |-> "none", val |-> NoneStr, gets |-> 0]

\* the repository URLs of the model are well formed, so git_url succeeds
GitPin_update(repo, br, exit_ok, out, response) ==
    LET head == fetch_branch_head(exit_ok, out, br)
        ts == get_timestamp(repo, response)
    IN IF ~head.ok
       THEN [status |-> "err", err |-> head.err, revision |-> <<>>, timestamp |-> NoneStr]
       ELSE IF ~ts.ok
       THEN [status |-> "err", err |-> ts.err, revision |-> <<>>, timestamp |-> NoneStr]
       ELSE [status |-> "ok", err |-> "none", revision |-> head.info.revision, timestamp |-> ts.val]

\* the HTTP GET requests GitPin::update sends: none when the branch head is
\* not found, since the lookup comes after it
GitPin_update_gets(repo, br, exit_ok, out, response) ==
    IF ~fetch_branch_head(exit_ok, out, br).ok THEN 0 ELSE get_timestamp(repo, response).gets

MaxLines == 2
T_master == <<"m", "a", "s", "t", "e", "r">>
T_dev == <<"d", "e", "v">>
Branches == {T_master, T_dev}
\* object names of a SHA-1 and of a SHA-256 repository
ObjectNames == {Rep("a", 40), Rep("c", 64)}
RefNames == {RefsHeads \o T_master,
             <<"r", "e", "f", "s", "/", "x", "/">> \o RefsHeads \o T_master,
             RefsHeads \o T_dev}
OutputLines ==
    {ls_remote_stdout(<<[revision |-> r, ref_ |-> n]>>) : r \in ObjectNames, n \in RefNames}
    \cup {T_foo \o <<"\n">>,
          Rep("a", 40) \o <<"\t">> \o RefsHeads \o T_master \o <<"\t">> \o T_foo \o <<"\n">>}

\* one repository of each variant
BranchRepositories ==
    {r \in Repositories : r.kind = "Forgejo" => r.server = UrlParse(<<"h", "t", "t", "p", "s", ":", "/", "/", "h">>).val}
        \ {r \in Repositories : r.private_token.some}

InitBranch ==
    /\ NoReleasePin
    /\ revision_text = <<>>
    /\ repository \in BranchRepositories
    /\ branch \in Branches
    /\ remote_out \in {Concat(ls) : ls \in SeqsUpTo(OutputLines, MaxLines)}
    /\ fetched = NoFetched
    /\ revision = NoRevision
    /\ NoListing
    /\ NoFetch
    /\ procs = <<>>

FetchRemote ==
    /\ \E exit_ok \in BOOLEAN : remote_infos' = fetch_remote(exit_ok, remote_out)
    /\ UNCHANGED <<branchVars, http_gets>>
    /\ UNCHANGED <<releaseVars, fetchVars, procs>>

FetchRef ==
    /\ \E exit_ok \in BOOLEAN : fetched' = fetch_ref(exit_ok, remote_out, RefsHeads \o branch)
    /\ UNCHANGED <<revision_text, repository, branch, remote_out, revision>>
    /\ UNCHANGED <<releaseVars, listingVars, fetchVars, procs>>

GitPinUpdate ==
    /\ \E exit_ok \in BOOLEAN, response \in ApiResponses :
           /\ revision' = GitPin_update(repository, branch, exit_ok, remote_out, response)
           /\ http_gets' = GitPin_update_gets(repository, branch, exit_ok, remote_out, response)
    /\ UNCHANGED <<revision_text, repository, branch, remote_out, fetched, remote_infos>>
    /\ UNCHANGED <<releaseVars, fetchVars, procs>>

NextBranch == FetchRemote \/ FetchRef \/ GitPinUpdate

SpecBranch == InitBranch /\ [][NextBranch]_vars

\* C8: every GitRevision in the system is exactly 40 hexadecimal characters,
\* the one GitPin::update returns included.
C8_RevisionIs40Hex ==
    (revision.status = "ok") => IsRevision(revision.revision)

\* C9: fetch_ref returns only an entry whose ref-name is the requested name,
\* also when refs that end with the name are listed before or after it.
C9_ExactRefOnly ==
    fetched.ok =>
        /\ fetched.info.ref_ = RefsHeads \o branch
        /\ \E l \in Range(split(remote_out, "\n")) :
               l = fetched.info.revision \o <<"\t">> \o RefsHeads \o branch

\* the exact ref has been returned from a listing that has a longer ref, one
\* that ends with the requested name, in front of it
C9_Witness ==
    /\ fetched.ok
    /\ fetched.info.ref_ = RefsHeads \o branch
    /\ LET first == Head(split(remote_out, "\n"))
           name == SubSeq(first, IndexOf(first, "\t") + 1, Len(first))
       IN /\ ends_with(name, RefsHeads \o branch)
          /\ name # RefsHeads \o branch
          /\ fetched.info.revision # SubSeq(first, 1, IndexOf(first, "\t") - 1)

\* C15: the timestamp lookup yields a value only for the GitHub variant; for
\* the other variants GitPin::update sends no HTTP request, and a successful
\* update has a timestamp exactly when the repository is the GitHub variant.
C15_TimestampOnlyForGitHub ==
    /\ (repository.kind # "GitHub") => http_gets = 0
    /\ (revision.status = "ok") =>
          /\ revision.timestamp.some <=> (repository.kind = "GitHub")
          /\ http_gets = (IF repository.kind = "GitHub" THEN 1 ELSE 0)

\* an update of a Forgejo pin has succeeded, without a timestamp and without
\* a request
C15_Witness ==
    /\ revision.status = "ok"
    /\ repository.kind = "Forgejo"
    /\ ~revision.timestamp.some
    /\ http_gets = 0

\* the number of tabs of a line
TabCount(line) == Cardinality({i \in 1..Len(line) : line[i] = "\t"})

\* the non-empty lines of the output, in order
OutputLinesOf(out) == SelectSeq(split(out, "\n"), LAMBDA l : l # <<>>)

\* the entry of a line with one tab
EntryOf(line) ==
    LET i == CHOOSE k \in 1..Len(line) : line[k] = "\t"
    IN [revision |-> SubSeq(line, 1, i - 1), ref_ |-> SubSeq(line, i + 1, Len(line))]

\* the first line of the output that has no tab or more than one
Offending(out) ==
    LET ls == OutputLinesOf(out)
        k == CHOOSE i \in 1..Len(ls) :
                 /\ TabCount(ls[i]) # 1
                 /\ \A j \in 1..(i - 1) : TabCount(ls[j]) = 1
    IN ls[k]

Listed == remote_infos.ok \/ remote_infos.err \in {"no_tab", "more_than_one_tab"}

WellFormed(out) == \A i \in 1..Len(OutputLinesOf(out)) : TabCount(OutputLinesOf(out)[i]) = 1

\* C20 as stated: the listing is parsed all or nothing, and the parse error
\* names the offending line.
C20_ErrorNamesOffendingLine ==
    Listed =>
        IF WellFormed(remote_out)
        THEN /\ remote_infos.ok
             /\ remote_infos.remotes
                  = [i \in 1..Len(OutputLinesOf(remote_out)) |-> EntryOf(OutputLinesOf(remote_out)[i])]
        ELSE /\ ~remote_infos.ok
             /\ remote_infos.remotes = <<>>
             /\ Contains(remote_infos.message, Offending(remote_out))

\* C20, amended: the listing is parsed all or nothing; the parse error tells
\* whether the first offending line has no tab or more than one, and its
\* message is a fixed text that does not hold the line.
C20_AllOrNothing ==
    Listed =>
        IF WellFormed(remote_out)
        THEN /\ remote_infos.ok
             /\ remote_infos.remotes
                  = [i \in 1..Len(OutputLinesOf(remote_out)) |-> EntryOf(OutputLinesOf(remote_out)[i])]
        ELSE /\ ~remote_infos.ok
             /\ remote_infos.remotes = <<>>
             /\ remote_infos.err = (IF TabCount(Offending(remote_out)) = 0
                                    THEN "no_tab" ELSE "more_than_one_tab")
             /\ remote_infos.message \in {T_no_tab, T_more_than_one_tab}
             /\ ~Contains(remote_infos.message, Offending(remote_out))

\* a listing whose first line is well formed and whose second line has two
\* tabs has been refused as a whole
C20_Witness ==
    /\ Listed /\ ~remote_infos.ok
    /\ Len(OutputLinesOf(remote_out)) = 2
    /\ TabCount(OutputLinesOf(remote_out)[1]) = 1
    /\ TabCount(OutputLinesOf(remote_out)[2]) = 2
    /\ remote_infos.remotes = <<>>

\* fetch_ref has been called and git ls-remote has not failed
LookedUp == (fetched.ok \/ fetched.err # "none") /\ fetched.err # "ls_remote_failed"

\* the refs the output lists, when every line is well formed
ListedRefs == {EntryOf(OutputLinesOf(remote_out)[i]).ref_ : i \in 1..Len(OutputLinesOf(remote_out))}

\* C21: on a listing fetch_ref has one of three outcomes: an empty listing
\* fails as empty ("not found"), a listing without an entry of the requested
\* name fails with the other error, and otherwise an entry of exactly that
\* name is returned; neither error is reported in the case of the other.
C21_ThreeOutcomes ==
    /\ (LookedUp /\ WellFormed(remote_out)) =>
          IF OutputLinesOf(remote_out) = <<>>
          THEN ~fetched.ok /\ fetched.err = "empty"
          ELSE IF RefsHeads \o branch \notin ListedRefs
          THEN ~fetched.ok /\ fetched.err = "not_contained"
          ELSE /\ fetched.ok /\ fetched.err = "none"
               /\ fetched.info.ref_ = RefsHeads \o branch
               /\ \E i \in 1..Len(OutputLinesOf(remote_out)) :
                      fetched.info = EntryOf(OutputLinesOf(remote_out)[i])
    /\ (fetched.err \in {"empty", "not_contained"}) => WellFormed(remote_out)

\* a listing of two refs that end with the requested name, neither being it,
\* has been refused, and not as empty
C21_Witness ==
    /\ LookedUp /\ WellFormed(remote_out)
    /\ Len(OutputLinesOf(remote_out)) = 2
    /\ \A n \in ListedRefs : ends_with(n, RefsHeads \o branch) /\ n # RefsHeads \o branch
    /\ fetched.err = "not_contained"

(***************************************************************************)
(* GitPin::fetch and GitReleasePin::fetch                                  *)
(***************************************************************************)
\* what `git ls-remote --refs <repo> <pattern>` lists of the refs of the
\* remote: the refs that are the pattern or end with "/" and the pattern
ls_remote_refs(entries, pattern) ==
    SelectSeq(entries, LAMBDA r : r.ref_ = pattern \/ ends_with(r.ref_, <<"/">> \o pattern))

FetchFailed(op, kind, ref_) ==
    [op |-> op, status |-> "err", err |-> kind, looked_up |-> ref_,
     revision |-> <<>>, url |-> NoneStr, hash |-> NoHash]

\* the Option<Url> of a successful Repository::url or release_url
UrlOption(u) == IF u.some THEN SomeStr(u.val) ELSE NoneStr

\* the archive taken whatever the submodules flag is
GitPin_fetch_Tarball(repo, e, sub, rev, prefetch_ok) ==
    LET g == git_url(repo, e)
        u == url(repo, e, rev)
        h == IF u.some THEN nix_prefetch_tarball(u.val, prefetch_ok)
             ELSE nix_prefetch_git(g.val, rev, FALSE, prefetch_ok)
    IN IF ~u.ok THEN FetchFailed("GitPin_fetch", "url", <<>>)
       ELSE IF ~u.some /\ ~g.ok THEN FetchFailed("GitPin_fetch", "git_url", <<>>)
       ELSE IF ~h.ok THEN FetchFailed("GitPin_fetch", "prefetch", <<>>)
       ELSE [op |-> "GitPin_fetch", status |-> "ok", err |-> "none", looked_up |-> <<>>,
             revision |-> rev, url |-> UrlOption(u), hash |-> h.hash]

\* GitPin::fetch
GitPin_fetch(repo, e, sub, rev, prefetch_ok) ==
    LET g == git_url(repo, e)
        u == url(repo, e, rev)
        h == IF sub THEN nix_prefetch_git(g.val, rev, TRUE, prefetch_ok)
             ELSE IF u.some THEN nix_prefetch_tarball(u.val, prefetch_ok)
             ELSE nix_prefetch_git(g.val, rev, FALSE, prefetch_ok)
    IN IF ~sub /\ ~u.ok THEN FetchFailed("GitPin_fetch", "url", <<>>)
       ELSE IF (sub \/ ~u.some) /\ ~g.ok THEN FetchFailed("GitPin_fetch", "git_url", <<>>)
       ELSE IF ~h.ok THEN FetchFailed("GitPin_fetch", "prefetch", <<>>)
       ELSE [op |-> "GitPin_fetch", status |-> "ok", err |-> "none", looked_up |-> <<>>,
             revision |-> rev, url |-> IF sub THEN NoneStr ELSE UrlOption(u), hash |-> h.hash]

\* the branch of that name looked up in place of the tag
TagRef_Heads(version) == RefsHeads \o version

\* format!("refs/tags/{}", version.version)
TagRef(version) == RefsTags \o version

\* GitReleasePin::fetch from the point where fetch_ref has returned f
GitReleasePin_fetch_after_ref(repo, e, sub, version, f, prefetch_ok) ==
    LET op == "GitReleasePin_fetch"
        g == git_url(repo, e)
        ref_ == TagRef(version)
        rev == f.info.revision
        u == release_url(repo, e, version)
        h == IF sub THEN nix_prefetch_git(g.val, rev, TRUE, prefetch_ok)
             ELSE IF u.some THEN nix_prefetch_tarball(u.val, prefetch_ok)
             ELSE nix_prefetch_git(g.val, rev, FALSE, prefetch_ok)
    IN IF ~g.ok THEN FetchFailed(op, "git_url", <<>>)
       ELSE IF ~f.ok THEN FetchFailed(op, f.err, ref_)
       ELSE IF ~sub /\ ~u.ok THEN FetchFailed(op, "release_url", ref_)
       ELSE IF ~h.ok THEN FetchFailed(op, "prefetch", ref_)
       ELSE [op |-> op, status |-> "ok", err |-> "none", looked_up |-> ref_,
             revision |-> rev, url |-> IF sub THEN NoneStr ELSE UrlOption(u), hash |-> h.hash]

\* the lookup of the tag of a version on a remote with the given refs
fetch_tag_ref(version, exit_ok, entries) ==
    fetch_ref(exit_ok, ls_remote_stdout(ls_remote_refs(entries, TagRef(version))), TagRef(version))

\* GitReleasePin::fetch against a remote with the given refs
GitReleasePin_fetch(repo, e, sub, version, exit_ok, entries, prefetch_ok) ==
    GitReleasePin_fetch_after_ref(repo, e, sub, version,
                                  fetch_tag_ref(version, exit_ok, entries), prefetch_ok)

(***************************************************************************)
(* diff::Diff: the (label, value) lists of the entities                    *)
(***************************************************************************)
T_NA == <<"N", "/", "A">>

\* bool::to_string
BoolText(b) == IF b THEN <<"t", "r", "u", "e">> ELSE <<"f", "a", "l", "s", "e">>

\* the text of a hash: the hash itself is a String of the hashing function
HashText(h) ==
    <<"s", "h", "a", "2", "5", "6", "-">> \o (IF h.by = "nix_prefetch_tarball" THEN <<"t", "a", "r", "b", "a", "l", "l">>
                     ELSE IF h.submodules THEN <<"g", "i", "t", "+", "s", "u", "b", "m", "o", "d", "u", "l", "e", "s">> ELSE <<"g", "i", "t">>)

Prop(label, value) == [label |-> label, value |-> value]

\* impl Diff for GitRevision
GitRevision_properties(rev) ==
    <<Prop("revision", rev.revision),
      Prop("timestamp", IF rev.timestamp.some THEN rev.timestamp.val ELSE T_NA)>>

\* an absent URL shown with the placeholder
OptionalUrlHashes_properties_Placeholder(h) ==
    <<Prop("url", IF h.url.some THEN h.url.val ELSE T_NA), Prop("hash", HashText(h.hash))>>

\* impl Diff for OptionalUrlHashes
OptionalUrlHashes_properties(h) ==
    (IF h.url.some THEN <<Prop("url", h.url.val)>> ELSE <<>>)
        \o <<Prop("hash", HashText(h.hash))>>

\* impl Diff for ReleasePinHashes
ReleasePinHashes_properties(h) ==
    <<Prop("revision", h.revision), Prop("hash", HashText(h.hash))>>

\* impl Diff for GitPin
GitPin_properties(repo, e, br, sub) ==
    <<Prop("repository", git_url(repo, e).val),
      Prop("branch", br),
      Prop("submodules", BoolText(sub))>>

\* impl Diff for GitReleasePin
GitReleasePin_properties(repo, e, pre, bound_text, prefix, sub) ==
    <<Prop("repository", git_url(repo, e).val), Prop("pre_releases", BoolText(pre))>>
        \o (IF bound_text.some THEN <<Prop("version_upper_bound", bound_text.val)>> ELSE <<>>)
        \o (IF prefix.some THEN <<Prop("release_prefix", prefix.val)>> ELSE <<>>)
        \o <<Prop("submodules", BoolText(sub))>>

(***************************************************************************)
(* A pin of each kind with a version it holds: the pin is fetched and its  *)
(* entities are presented.                                                 *)
(***************************************************************************)
FetchTags == {T_1_0, T_2_0, T_v1_0}
\* a remote has one tag of a name
DistinctSeqs(S, n) == {s \in SeqsUpTo(S, n) : \A i, j \in 1..Len(s) : s[i] = s[j] => i = j}
FetchVersions == {T_1_0, T_v1_0, T_foo}
FetchConfigs ==
    {[pre |-> FALSE, bound |-> NoneStr, prefix |-> NoneStr],
     [pre |-> FALSE, bound |-> SomeStr(T_2), prefix |-> NoneStr],
     [pre |-> TRUE, bound |-> NoneStr, prefix |-> SomeStr(T_v)]}
\* a repository and the environment variables its variant reads
FetchSettings ==
    {s \in [repo : Repositories, env : Environments] :
        \/ s.env = NoEnv
        \/ s.repo.kind = "GitHub" /\ s.env.NPINS_GITHUB_HOST.some
        \/ s.repo.kind = "GitLab" /\ s.env.GITLAB_TOKEN.some}
HeldRevisions ==
    {[status |-> "ok", err |-> "none", revision |-> Rep("a", 40), timestamp |-> t] :
        t \in {NoneStr, SomeStr(T_date)}}

InitFetch ==
    /\ \E c \in FetchConfigs :
           /\ pre_releases = c.pre
           /\ version_upper_bound = c.bound
           /\ release_prefix = c.prefix
    /\ tags \in DistinctSeqs(FetchTags, MaxRemoteTags)
    /\ pinned \in {SomeStr(v) : v \in FetchVersions}
    /\ call = NoCall
    /\ revision_text = <<>>
    /\ \E s \in FetchSettings :
           /\ repository = s.repo
           /\ env = s.env
    /\ branch = T_master
    /\ remote_out = <<>>
    /\ fetched = NoFetched
    /\ revision \in HeldRevisions
    /\ NoListing
    /\ submodules \in BOOLEAN
    /\ hashes = NoHashes
    /\ shown = NoShown
    /\ procs = <<>>

GitPinFetch ==
    /\ \E prefetch_ok \in BOOLEAN :
           hashes' = GitPin_fetch(repository, env, submodules, revision.revision, prefetch_ok)
    /\ UNCHANGED <<releaseVars, branchVars, listingVars, submodules, env, shown, procs>>

GitReleasePinFetch ==
    /\ \E exit_ok \in BOOLEAN, prefetch_ok \in BOOLEAN :
           hashes' = GitReleasePin_fetch(repository, env, submodules, pinned.val,
                                         exit_ok, TagEntries(tags), prefetch_ok)
    /\ UNCHANGED <<releaseVars, branchVars, listingVars, submodules, env, shown, procs>>

\* the presenter is given the properties of the pin, of the revision held or
\* of the hashes a fetch returned
Present ==
    /\ \/ shown' = [entity |-> "GitPin",
                    props |-> GitPin_properties(repository, env, branch, submodules)]
       \/ shown' = [entity |-> "GitReleasePin",
                    props |-> GitReleasePin_properties(repository, env, pre_releases,
                                                       version_upper_bound, release_prefix,
                                                       submodules)]
       \/ shown' = [entity |-> "GitRevision", props |-> GitRevision_properties(revision)]
       \/ /\ hashes.status = "ok" /\ hashes.op = "GitPin_fetch"
          /\ shown' = [entity |-> "OptionalUrlHashes", props |-> OptionalUrlHashes_properties(hashes)]
       \/ /\ hashes.status = "ok" /\ hashes.op = "GitReleasePin_fetch"
          /\ shown' = [entity |-> "ReleasePinHashes", props |-> ReleasePinHashes_properties(hashes)]
    /\ UNCHANGED <<releaseVars, branchVars, listingVars, submodules, env, hashes, procs>>

NextFetch == GitPinFetch \/ GitReleasePinFetch \/ Present

SpecFetch == InitFetch /\ [][NextFetch]_vars

\* the fetch of either pin kind has succeeded
Fetched == hashes.status = "ok"

\* what the fetch was asked for: the revision held or the version held
Asked == IF hashes.op = "GitPin_fetch" THEN revision.revision ELSE pinned.val

\* C11: a successful fetch of either pin kind returns no URL exactly when the
\* pin tracks submodules or the repository is the Git variant; then the hash
\* is nix_prefetch_git's, of the clone URL at the revision with the pin's
\* submodules flag, and otherwise it is nix_prefetch_tarball's of the URL
\* returned.
C11_UrlAbsentIffFullClone ==
    Fetched =>
        IF submodules \/ repository.kind = "Git"
        THEN /\ ~hashes.url.some
             /\ hashes.hash = [by |-> "nix_prefetch_git", url |-> git_url(repository, env).val,
                               rev |-> hashes.revision, submodules |-> submodules]
        ELSE /\ hashes.url.some
             /\ hashes.hash = [by |-> "nix_prefetch_tarball", url |-> hashes.url.val,
                               rev |-> <<>>, submodules |-> FALSE]

\* a branch pin that tracks submodules of a repository with an archive URL
\* has been fetched
C11_Witness ==
    /\ Fetched /\ hashes.op = "GitPin_fetch"
    /\ submodules /\ repository.kind = "GitHub"
    /\ ~hashes.url.some
    /\ hashes.hash.by = "nix_prefetch_git" /\ hashes.hash.submodules

\* C12: the query of a GitLab archive URL carries sha=<rev-or-tag>, and with
\* a credential private_token=<token> in addition to it.
C12_QueryCarriesSha ==
    (Fetched /\ repository.kind = "GitLab" /\ hashes.url.some) =>
        /\ Contains(hashes.url.val, <<"?">> \o T_sha \o Asked)
        /\ repository.private_token.some =>
               Contains(hashes.url.val, T_private_token \o repository.private_token.val)

\* the credentials in use: the explicit one and the one of the environment
Credentials ==
    (IF repository.private_token.some THEN {repository.private_token.val} ELSE {})
        \cup (IF env.GITLAB_TOKEN.some THEN {env.GITLAB_TOKEN.val} ELSE {})

\* the property list of a pin without any credential
PropsWithoutCredential ==
    LET repo == [repository EXCEPT !.private_token = NoneStr]
        e == [env EXCEPT !.GITLAB_TOKEN = NoneStr]
    IN IF shown.entity = "GitPin" THEN GitPin_properties(repo, e, branch, submodules)
       ELSE GitReleasePin_properties(repo, e, pre_releases, version_upper_bound,
                                     release_prefix, submodules)

\* C13: no value the presenter is given holds the GitLab credential, and a
\* pin presents the same list with and without a credential.
C13_NoCredentialShown ==
    /\ \A i \in 1..Len(shown.props) : \A c \in Credentials : ~Contains(shown.props[i].value, c)
    /\ shown.entity \in {"GitPin", "GitReleasePin"} => shown.props = PropsWithoutCredential

Labels == [i \in 1..Len(shown.props) |-> shown.props[i].label]

\* C14 as stated: the labels of an entity kind are the same whatever optional
\* fields are set, an absent field being shown with a placeholder.
C14_AbsentOptionalsShown ==
    /\ shown.entity = "GitRevision" => Labels = <<"revision", "timestamp">>
    /\ shown.entity = "OptionalUrlHashes" => Labels = <<"url", "hash">>
    /\ shown.entity = "ReleasePinHashes" => Labels = <<"revision", "url", "hash">>
    /\ shown.entity = "GitReleasePin" =>
           Labels = <<"repository", "pre_releases", "version_upper_bound",
                      "release_prefix", "submodules">>

\* C14, amended: only the timestamp of a revision is shown with the
\* placeholder N/A when absent; the URL of the hashes of a branch pin and the
\* version_upper_bound and release_prefix of a release pin are listed exactly
\* when they are present, and the hashes of a release pin never list a URL.
C14_OnlyTimestampHasPlaceholder ==
    /\ shown.entity = "GitRevision" =>
           /\ Labels = <<"revision", "timestamp">>
           /\ shown.props[2].value = (IF revision.timestamp.some THEN revision.timestamp.val ELSE T_NA)
    /\ shown.entity = "OptionalUrlHashes" =>
           Labels = (IF submodules \/ repository.kind = "Git" THEN <<>> ELSE <<"url">>) \o <<"hash">>
    /\ shown.entity = "ReleasePinHashes" => Labels = <<"revision", "hash">>
    /\ shown.entity = "GitReleasePin" =>
           Labels = <<"repository", "pre_releases">>
                        \o (IF version_upper_bound.some THEN <<"version_upper_bound">> ELSE <<>>)
                        \o (IF release_prefix.some THEN <<"release_prefix">> ELSE <<>>)
                        \o <<"submodules">>
    /\ shown.entity # "GitRevision" => \A i \in 1..Len(shown.props) : shown.props[i].value # T_NA

\* the hashes of a branch pin have been presented without a URL
C14_Witness ==
    /\ shown.entity = "OptionalUrlHashes"
    /\ Labels = <<"hash">>
    /\ ~version_upper_bound.some

\* C17: the fetch of a release pin looks up exactly refs/tags/<version>; when
\* it succeeds the version is a tag of the remote, the revision is the one
\* of that tag and the URL is made from the version alone, whatever other
\* tags the remote has and whatever pre_releases, version_upper_bound and
\* release_prefix are; it fails as empty only when the remote has no such tag.
C17_FetchesThePinnedTag ==
    (hashes.op = "GitReleasePin_fetch") =>
        /\ hashes.looked_up = RefsTags \o pinned.val
        /\ Fetched =>
              /\ pinned.val \in Range(tags)
              /\ hashes.revision = RevisionOfTag(pinned.val)
              /\ hashes.url = (IF submodules THEN NoneStr
                               ELSE UrlOption(release_url(repository, env, pinned.val)))
        /\ ~Fetched =>
              /\ hashes.err \in {"ls_remote_failed", "empty", "prefetch"}
              /\ (hashes.err = "empty") => pinned.val \notin Range(tags)

\* the version 1.0 has been fetched from a remote that also has 2.0, by a pin
\* with pre_releases and the release prefix v, which 1.0 does not start with
C17_Witness ==
    /\ Fetched /\ hashes.op = "GitReleasePin_fetch"
    /\ pinned.val = T_1_0
    /\ T_2_0 \in Range(tags)
    /\ pre_releases /\ release_prefix = SomeStr(T_v)
    /\ hashes.revision = RevisionOfTag(T_1_0)

\* a text without its trailing slash
TrimSlash(s) == IF s # <<>> /\ s[Len(s)] = "/" THEN SubSeq(s, 1, Len(s) - 1) ELSE s

\* <server>/<owner>/<repo>, with one slash between server and owner
ForgejoBase ==
    TrimSlash(repository.server) \o <<"/">> \o repository.owner \o <<"/">> \o repository.repo

\* C18: the clone URL of a Forgejo repository is <server>/<owner>/<repo>.git
\* and its archive URL is <server>/<owner>/<repo>/archive/<rev>.tar.gz, with
\* one slash between server and owner in both.
C18_ForgejoSharedBase ==
    (repository.kind = "Forgejo") =>
        /\ (shown.entity = "GitPin") => shown.props[1].value = ForgejoBase \o T_dot_git
        /\ (Fetched /\ hashes.op = "GitPin_fetch" /\ hashes.url.some) =>
               hashes.url.val = ForgejoBase \o T_archive \o revision.revision \o T_tar_gz

(***************************************************************************)
(* Two calls in progress at once: the calls of two release pins are        *)
(* futures, and each await of a call is a point where the other may run.   *)
(***************************************************************************)
\* the pins of the calls, each with the tags of its remote and the version
\* it holds
ConcurrentPins ==
    {[repo |-> r, pre |-> c.pre, bound |-> c.bound, prefix |-> c.prefix, sub |-> FALSE,
      tags |-> IF r.kind = "GitHub" THEN <<T_1_0, T_2_0>> ELSE <<T_v1_0>>,
      held |-> SomeStr(IF r.kind = "GitHub" THEN T_1_0 ELSE T_v1_0)] :
        r \in {x \in BranchRepositories : x.kind \in {"GitHub", "Git"}},
        c \in FetchConfigs \cup {[pre |-> FALSE, bound |-> SomeStr(T_foo), prefix |-> NoneStr]}}

NoProc ==
    [op |-> "none", pin |-> CHOOSE x \in ConcurrentPins : TRUE, pc |-> "start",
     exit_ok |-> TRUE, prefetch_ok |-> TRUE, overlapped |-> FALSE,
     listing |-> NoListed, found |-> NoFetched, result |-> NoCall, hashes |-> NoHashes]

\* the locals of every call taken from the first call
Local_Shared(ps, i) == ps[1]

\* the locals of a call: each call has its own
Local(ps, i) == ps[i]

\* another call is between its start and its end
Overlaps(i) == \E j \in DOMAIN procs : j # i /\ procs[j].pc \notin {"start", "done"}

InitConcurrent ==
    /\ NoReleasePin
    /\ revision_text = <<>>
    /\ repository = NoRepository
    /\ branch = <<>>
    /\ remote_out = <<>>
    /\ fetched = NoFetched
    /\ revision = NoRevision
    /\ NoListing
    /\ NoFetch
    /\ procs \in [1..2 -> {[NoProc EXCEPT !.op = o, !.pin = x] :
                             o \in {"update", "fetch"}, x \in ConcurrentPins}]

\* the call runs to its first await: update parses the bound, fetch makes
\* the clone URL
Start(i) ==
    /\ procs[i].pc = "start"
    /\ LET p == procs[i]
           q == [p EXCEPT !.overlapped = Overlaps(i)]
       IN procs' = [procs EXCEPT ![i] =
              IF p.op = "update"
              THEN IF ~ParseUpperBound(p.pin.bound).ok
                   THEN [q EXCEPT !.pc = "done",
                                  !.result = Failed("invalid_upper_bound", p.pin.held, NoRelease)]
                   ELSE [q EXCEPT !.pc = "listing"]
              ELSE IF ~git_url(p.pin.repo, NoEnv).ok
                   THEN [q EXCEPT !.pc = "done",
                                  !.hashes = FetchFailed("GitReleasePin_fetch", "git_url", <<>>)]
                   ELSE [q EXCEPT !.pc = "looking_up"]]
    /\ UNCHANGED <<releaseVars, branchVars, listingVars, fetchVars>>

\* git ls-remote returns to the call that awaits it
AwaitRemote(i) ==
    /\ procs[i].pc \in {"listing", "looking_up"}
    /\ \E exit_ok \in BOOLEAN :
          LET p == procs[i]
              q == [p EXCEPT !.exit_ok = exit_ok, !.overlapped = p.overlapped \/ Overlaps(i)]
          IN procs' = [procs EXCEPT ![i] =
                 IF p.pc = "listing"
                 THEN [q EXCEPT !.pc = "listed",
                                !.listing = fetch_tags(exit_ok, ls_remote_stdout(TagEntries(p.pin.tags)))]
                 ELSE [q EXCEPT !.pc = "found",
                                !.found = fetch_tag_ref(p.pin.held.val, exit_ok, TagEntries(p.pin.tags))]]
    /\ UNCHANGED <<releaseVars, branchVars, listingVars, fetchVars>>

\* the call runs from what ls-remote returned to its end
Finish(i) ==
    /\ procs[i].pc \in {"listed", "found"}
    /\ \E prefetch_ok \in BOOLEAN :
          LET p == procs[i]
              q == [p EXCEPT !.pc = "done", !.overlapped = p.overlapped \/ Overlaps(i)]
          IN procs' = [procs EXCEPT ![i] =
                 IF p.pc = "listed"
                 THEN [q EXCEPT !.result = update_after_listing(p.pin.pre, p.pin.bound, p.pin.prefix,
                                                                Local(procs, i).listing, p.pin.held)]
                 ELSE [q EXCEPT !.prefetch_ok = prefetch_ok,
                                !.hashes = GitReleasePin_fetch_after_ref(
                                               p.pin.repo, NoEnv, p.pin.sub, p.pin.held.val,
                                               Local(procs, i).found, prefetch_ok)]]
    /\ UNCHANGED <<releaseVars, branchVars, listingVars, fetchVars>>

NextConcurrent == \E i \in 1..2 : Start(i) \/ AwaitRemote(i) \/ Finish(i)

SpecConcurrent == InitConcurrent /\ [][NextConcurrent]_vars

\* what the call of a pin returns when it runs alone
Alone(p) ==
    IF p.op = "update"
    THEN [result |-> update(p.pin.pre, p.pin.bound, p.pin.prefix, p.exit_ok,
                            ls_remote_stdout(TagEntries(p.pin.tags)), p.pin.held),
          hashes |-> NoHashes]
    ELSE [result |-> NoCall,
          hashes |-> GitReleasePin_fetch(p.pin.repo, NoEnv, p.pin.sub, p.pin.held.val,
                                         p.exit_ok, TagEntries(p.pin.tags), p.prefetch_ok)]

\* C19: however the steps of the calls of two pins interleave, a call that
\* has ended has returned what it returns when run alone against the same
\* remote with the same answers of git and of the hashing function.
C19_CallsDoNotInterfere ==
    \A i \in DOMAIN procs :
        (procs[i].pc = "done") =>
            /\ procs[i].result = Alone(procs[i]).result
            /\ procs[i].hashes = Alone(procs[i]).hashes

\* an update and a fetch of different pins have both ended with success,
\* each having taken a step while the other was in progress
C19_Witness ==
    /\ procs # <<>>
    /\ procs[1].pc = "done" /\ procs[2].pc = "done"
    /\ procs[1].overlapped /\ procs[2].overlapped
    /\ procs[1].op = "update" /\ procs[1].result.status = "ok"
    /\ procs[2].op = "fetch" /\ procs[2].hashes.status = "ok"
    /\ procs[1].pin.tags # procs[2].pin.tags

(***************************************************************************)
(* A release pin resolved again and again against one remote: the pin is   *)
(* updated, keeping a successful result, and the version kept is fetched.  *)
(***************************************************************************)
InitResolve ==
    /\ pre_releases \in BOOLEAN
    /\ version_upper_bound \in PinUpperBounds
    /\ release_prefix \in PinPrefixes
    /\ tags \in DistinctSeqs(RemoteTags, MaxRemoteTags)
    /\ pinned \in HeldVersions
    /\ call = NoCall
    /\ revision_text = <<>>
    /\ repository \in {r \in Repositories : r.kind = "GitHub"}
    /\ branch = <<>>
    /\ remote_out = <<>>
    /\ fetched = NoFetched
    /\ revision = NoRevision
    /\ NoListing
    /\ NoFetch
    /\ procs = <<>>

\* GitReleasePin::fetch of the version the last update returned
FetchUpdated ==
    /\ call.op = "update" /\ call.status = "ok"
    /\ pinned = SomeStr(call.version)
    /\ \E exit_ok \in BOOLEAN, prefetch_ok \in BOOLEAN :
           hashes' = GitReleasePin_fetch(repository, env, submodules, pinned.val,
                                         exit_ok, TagEntries(tags), prefetch_ok)
    /\ UNCHANGED <<releaseVars, branchVars, listingVars, submodules, env, shown, procs>>

NextResolve == Update \/ FetchUpdated

SpecResolve == InitResolve /\ [][NextResolve]_vars

\* the version kept is the one the last update returned, and it was fetched
FetchedUpdated ==
    /\ call.op = "update" /\ call.status = "ok"
    /\ pinned = SomeStr(call.version)
    /\ hashes.op = "GitReleasePin_fetch"

\* C23: the fetch of the version a successful update returned looks up the
\* ref of the remote tag the selector matched, a tag with the release prefix
\* when one is configured; it does not fail as not found, and when it
\* succeeds its revision is the one of that tag.
C23_FetchFindsSelectedTag ==
    FetchedUpdated =>
        /\ call.latest.tag \in Range(tags)
        /\ release_prefix.some => starts_with(call.latest.tag, release_prefix.val)
        /\ hashes.looked_up = RefsTags \o call.latest.tag
        /\ hashes.status = "ok" \/ hashes.err \in {"ls_remote_failed", "prefetch"}
        /\ hashes.status = "ok" => hashes.revision = RevisionOfTag(call.latest.tag)

\* the release v1.0 selected under the prefix v has been fetched from a
\* remote that also has the tag 1.0, the display name of the release
C23_Witness ==
    /\ FetchedUpdated /\ hashes.status = "ok"
    /\ release_prefix = SomeStr(T_v)
    /\ call.latest.name \in Range(tags)
    /\ call.latest.name # call.latest.tag
    /\ hashes.revision = RevisionOfTag(call.latest.tag)

\* C24: an update of a pin that holds the version V its last update returned
\* returns V again when the remote is unchanged and git lists its tags: the
\* monotonicity check does not refuse the pin's own result.
C24_UpdateIsFixpoint ==
    [][(/\ call.op = "update" /\ call.status = "ok"
        /\ pinned = SomeStr(call.version)
        /\ tags' = tags
        /\ call' # call
        /\ call'.err # "fetch_tags")
       => (/\ call'.old = pinned
           /\ call'.status = "ok"
           /\ call'.version = call.version
           /\ pinned' = pinned)]_vars

\* a pin with a release prefix has been updated twice, the second time with
\* the version the first update returned, which differs from what it held
\* before
C24_Witness ==
    /\ call.op = "update" /\ call.status = "ok"
    /\ call.old = SomeStr(call.version)
    /\ pinned = call.old
    /\ release_prefix.some
    /\ tags # <<>>
    /\ call.old \notin HeldVersions

====
